---- MODULE Spec2Model ----
(***************************************************************************)
(* Scheduled WhatsApp notification dispatch with delivery-status           *)
(* reconciliation (runDailyWhatsAppJob, /api/cron/whatsapp-status,         *)
(* /api/cron/whatsapp-resend, /api/whatsapp/resend).                       *)
(*                                                                         *)
(* The data store is the tables pendaftaran_operasi (events) and           *)
(* cron_job_logs (logs).  Every await on the store is one step of the      *)
(* calling handler, so handlers interleave exactly where the JavaScript    *)
(* event loop lets them.  mst_parameter is edited by administrators        *)
(* outside these handlers: each lookup draws its result as an input.       *)
(* A store call fails only where the handler inspects the error it         *)
(* returns (logInsertError, sError, pError, lError); a store call whose    *)
(* error the handler never reads is modelled as performed.                 *)
(*                                                                         *)
(* Dates are day numbers; text is a sequence of tokens, so that the        *)
(* ilike '%date%' correlation of a log row is a search through the         *)
(* summary the handlers actually wrote.                                    *)
(***************************************************************************)
EXTENDS Integers, Sequences, FiniteSets, TLC

\* ---------------------------------------------------------------- bounds
NumRuns == 1
NumResends == 2
MaxEvents == 2
MaxToday == 1

\* ------------------------------------------------------ program constants
\* d2Date.setDate(d2Date.getDate() + 2)
LeadDays == 2

\* s.ruangan_rawat_inap || 'TIDAK DIKETAHUI'
UNKNOWN == "TIDAK DIKETAHUI"

\* an absent column value (SQL NULL / undefined)
NULL == "null"

\* a request parameter that is not given
NotGiven == 0 - 1

\* an executionDate of which new Date(executionDate).getTime() is NaN
InvalidDate == 0 - 2

WardA == "Ward A"
WardB == "Ward B"

\* the values the column ruangan_rawat_inap holds
StoredRooms == {WardA, WardB, UNKNOWN, NULL}

\* ORDER BY ruangan_rawat_inap ASC (NULLS LAST)
RoomOrder == <<WardA, WardB, UNKNOWN, NULL>>

Runs == 1 .. NumRuns
Resends == 1 .. NumResends
Days == 0 .. MaxToday
Dates == LeadDays .. (MaxToday + LeadDays)

PHONE == "628xx"

VARIABLES
    today,      \* the current day in Asia/Jakarta
    events,     \* pendaftaran_operasi: date -> stored room -> number of rows
    logs,       \* cron_job_logs: sequence of rows, a row's id is its index
    clock,      \* the wall clock the timestamps are read from
    run,        \* the invocations of runDailyWhatsAppJob
    rs,         \* the invocations of the resend handlers
    report      \* the last response of /api/cron/whatsapp-status

vars == <<today, events, logs, clock, run, rs, report>>

\* ------------------------------------------------------------------ text
Tok(t, s, n) == [t |-> t, s |-> s, n |-> n]
Text(s) == Tok("text", s, 0)
DateTok(d) == Tok("date", "", d)
NumTok(n) == Tok("num", "", n)
RoomTok(r) == Tok("room", r, 0)

\* .ilike('summary', `%${date}%`): a NULL summary (the empty text) never matches
Contains(summary, date) == \E i \in 1 .. Len(summary) : summary[i] = DateTok(date)

\* ------------------------------------------------------- Surgery queries
RECURSIVE Repeat(_, _)
Repeat(x, n) == IF n = 0 THEN <<>> ELSE <<x>> \o Repeat(x, n - 1)

RECURSIVE SurgeriesFrom(_, _)
SurgeriesFrom(d, i) ==
    IF i > Len(RoomOrder) THEN <<>>
    ELSE Repeat(RoomOrder[i], events[d][RoomOrder[i]]) \o SurgeriesFrom(d, i + 1)

\* .eq('tanggal_rencana_operasi', targetDate).order('ruangan_rawat_inap')
SurgeriesFor(d) == SurgeriesFrom(d, 1)

\* SurgeriesForRoom matching the group of a row, as the orchestrator forms it
SurgeriesForGroup(d, room) ==
    IF room = UNKNOWN THEN Repeat(room, events[d][UNKNOWN] + events[d][NULL])
    ELSE Repeat(room, events[d][room])

\* .eq('tanggal_rencana_operasi', date).eq('ruangan_rawat_inap', room)
SurgeriesForRoom(d, room) == Repeat(room, events[d][room])

TotalEvents ==
    LET RECURSIVE Sum(_, _)
        Sum(d, i) == IF i > Len(RoomOrder) THEN 0 ELSE events[d][RoomOrder[i]] + Sum(d, i + 1)
        RECURSIVE All(_)
        All(d) == IF d > MaxToday + LeadDays THEN 0 ELSE Sum(d, 1) + All(d + 1)
    IN All(LeadDays)

\* const room = s.ruangan_rawat_inap || 'TIDAK DIKETAHUI'
RoomOf(stored) == IF stored = NULL THEN UNKNOWN ELSE stored

IndexOfRoom(groups, room) ==
    LET hits == {i \in 1 .. Len(groups) : groups[i].room = room}
    IN IF hits = {} THEN 0 ELSE CHOOSE i \in hits : \A j \in hits : i <= j

\* surgeries.reduce((acc, s) => { ...; acc[room].push(s); ... }, {}):
\* the groups in the order Object.keys lists them, each with its length
RECURSIVE groupedByRoom(_, _)
groupedByRoom(surgeries, acc) ==
    IF surgeries = <<>> THEN acc
    ELSE LET room == RoomOf(Head(surgeries))
             i == IndexOfRoom(acc, room)
         IN groupedByRoom(Tail(surgeries),
                IF i = 0 THEN Append(acc, [room |-> room, n |-> 1])
                ELSE [acc EXCEPT ![i].n = @ + 1])

\* --------------------------------------------------------- Message Sender
\* what fetch and response.json() yield: a body whose status is true, false or
\* anything else (a string, absent, a body that is null), or an exception
ProviderResponses == {"status_true", "status_false", "status_other", "throws"}

\* sendWhatsAppMessage with `success: !!result.status`
sendWhatsAppMessageTruthy(token, resp) ==
    IF ~token THEN [success |-> FALSE, requests |-> 0]
    ELSE IF resp = "throws" THEN [success |-> FALSE, requests |-> 1]
    ELSE [success |-> (resp \in {"status_true", "status_other"}), requests |-> 1]

\* sendWhatsAppMessage: token is process.env.FONNTE_TOKEN being set, resp is
\* what fetch and response.json() yield
sendWhatsAppMessage(token, resp) ==
    IF ~token THEN [success |-> FALSE, requests |-> 0]
    ELSE IF resp = "throws" THEN [success |-> FALSE, requests |-> 1]
    ELSE [success |-> (resp = "status_true"), requests |-> 1]

\* ----------------------------------------------------- message composition
\* the columns of pendaftaran_operasi a message line may show; a stored row is
\* the set of those of its columns that hold a value
OptionalColumns ==
    {"no_rekam_medis", "dokter_operator", "dokter_anestesi", "jam_rencana_operasi",
     "jenis_operasi", "nomor_telp_1", "nomor_telp_2", "ruang_operasi", "diagnosis"}

\* the rows the store is taken to hold: every column filled, none filled
RowShapes == {OptionalColumns, {}}

\* the handlers that compose a message
Orchestrator == "runDailyWhatsAppJob"
CronResend == "/api/cron/whatsapp-resend"
WhatsAppResend == "/api/whatsapp/resend"

\* .select(...): the optional columns each handler fetches
Selected(handler) ==
    IF handler = CronResend THEN OptionalColumns \ {"ruang_operasi"} ELSE OptionalColumns

\* the fields of a line after the patient's name, in the order of the template
LineFields(handler) ==
    IF handler = CronResend
    THEN <<"no_rekam_medis", "dokter_operator", "dokter_anestesi", "jam_rencana_operasi",
           "jenis_operasi", "nomor_telp_1", "nomor_telp_2", "diagnosis">>
    ELSE <<"no_rekam_medis", "dokter_operator", "dokter_anestesi", "jam_rencana_operasi",
           "jenis_operasi", "nomor_telp_1", "nomor_telp_2", "ruang_operasi", "diagnosis">>

\* `${s.x || '-'}`, and for the time s.jam_rencana_operasi.substring(0, 5)
Rendered(column, fetched) ==
    IF column \notin fetched THEN "-"
    ELSE IF column = "jam_rencana_operasi" THEN "hh:mm"
    ELSE column

\* one element of roomSurgeries.map((s, i) => ...)
EventLine(handler, i, row) ==
    [no |-> i,
     nama_pasien |-> "nama_pasien",
     fields |-> [k \in 1 .. Len(LineFields(handler)) |->
                    [field |-> LineFields(handler)[k],
                     text |-> Rendered(LineFields(handler)[k], row \cap Selected(handler))]]]

\* the text around the lines
Framing(handler) ==
    IF handler = Orchestrator THEN <<"H-2", "dikirim otomatis oleh SORA">>
    ELSE IF handler = CronResend THEN <<"H-2", "Manual Resend">>
    ELSE <<"", "Manual Resend">>

NoMessage == [composed |-> FALSE, by |-> NULL, date |-> 0, rows |-> <<>>, lines |-> <<>>,
              framing |-> <<>>, total |-> 0]

\* const message = `Selamat pagi, ${displayName}! ... (${date}) ... ${lines} ... Total: ${n} operasi. ...`
Message(handler, date, rows) ==
    [composed |-> TRUE, by |-> handler, date |-> date, rows |-> rows,
     lines |-> [i \in 1 .. Len(rows) |-> EventLine(handler, i, rows[i])],
     framing |-> Framing(handler), total |-> Len(rows)]

\* the rows of a room as fetched: n rows, each of one of the shapes
RowsOf(n, shapes) == [1 .. n -> shapes]

\* --------------------------------------------------------------- records
NoDetails == [present |-> FALSE, targetDate |-> 0, rooms |-> <<>>]

\* a RoomResult the orchestrator pushes without sending
Unsent(room, status) ==
    [room |-> room, phone |-> NULL, status |-> status, counted |-> FALSE,
     surgery_count |-> 0, reason |-> TRUE, resent |-> FALSE]

\* Attempt without surgery_count
AttemptUncounted(room, success, n, resent) ==
    [room |-> room, phone |-> PHONE,
     status |-> IF success THEN "sent" ELSE "send_failed",
     counted |-> FALSE, surgery_count |-> 0, reason |-> FALSE, resent |-> resent]

\* a RoomResult after a send
Attempt(room, success, n, resent) ==
    [room |-> room, phone |-> PHONE,
     status |-> IF success THEN "sent" ELSE "send_failed",
     counted |-> TRUE, surgery_count |-> n, reason |-> FALSE, resent |-> resent]

\* a row of cron_job_logs; owner (the run that inserted it, 0 for a resend) and
\* version (the number of writes the row has received) are history, no columns
NoRow == [id |-> 0, owner |-> 0, status |-> NULL, summary |-> <<>>,
          details |-> NoDetails, timestamp |-> 0, version |-> 0]

\* a request to /api/cron/whatsapp-daily: the headers x-vercel-cron and
\* authorization, and process.env.CRON_SECRET as the handler reads it
NoRequest == [arrived |-> FALSE, xVercelCron |-> NULL, authorization |-> <<>>,
              cronSecret |-> NULL]

\* a call of sendWhatsAppMessage as its caller saw it (history): whether
\* FONNTE_TOKEN was set, what the provider answered, what the call returned
NoCall == [made |-> FALSE, token |-> FALSE, resp |-> NULL, success |-> FALSE, requests |-> 0]

\* request and code are those of the trigger gateway, when the run comes from it
IdleRun ==
    [pc |-> "idle", logId |-> 0, day |-> 0, targetDate |-> 0, surgeries |-> <<>>,
     uniqueRooms |-> <<>>, idx |-> 0, roomResults |-> <<>>, trace |-> <<>>,
     sError |-> FALSE, status |-> NULL, summary |-> <<>>, details |-> NoDetails,
     result |-> [returned |-> FALSE, status |-> NULL, rooms |-> <<>>, total_surgeries |-> 0],
     request |-> NoRequest, code |-> 0, message |-> NoMessage, call |-> NoCall]

\* err.message: the text of the error the store returned
ErrMessage == "err.message"

\* entry is the handler the request came to, message the last message composed,
\* details the field of that name in the body of the response, running the runs
\* whose log row was in status running when the log was read (history)
IdleResend ==
    [pc |-> "idle", date |-> 0, room |-> NULL, n |-> 0, success |-> FALSE,
     trace |-> <<>>, after |-> {}, latestLog |-> NoRow, wrote |-> 0,
     wroteVersion |-> 0, inserted |-> FALSE, code |-> 0,
     entry |-> NULL, message |-> NoMessage, call |-> NoCall, details |-> NULL,
     running |-> {}]

NoReport == [target_date |-> 0, total_surgeries |-> 0, rooms |-> <<>>,
             overall_log_status |-> NULL, log |-> 0, code |-> 0,
             original_params |-> [date |-> NotGiven, executionDate |-> NotGiven],
             details |-> NULL]

Init ==
    /\ today \in Days
    /\ events = [d \in Dates |-> [k \in StoredRooms |-> 0]]
    /\ logs = <<>>
    /\ clock = 1
    /\ run = [r \in Runs |-> IdleRun]
    /\ rs = [p \in Resends |-> IdleResend]
    /\ report = NoReport

\* ------------------------------------------------- /api/registrations
AddEvent(d, k) ==
    /\ TotalEvents < MaxEvents
    /\ events' = [events EXCEPT ![d][k] = @ + 1]
    /\ UNCHANGED <<today, logs, clock, run, rs, report>>

DeleteEvent(d, k) ==
    /\ events[d][k] > 0
    /\ events' = [events EXCEPT ![d][k] = @ - 1]
    /\ UNCHANGED <<today, logs, clock, run, rs, report>>

\* ------------------------------------------------- runDailyWhatsAppJob
\* the number of steps of one kind an invocation has taken
Count(trace, step) == Cardinality({i \in 1 .. Len(trace) : trace[i] = step})

\* the row inserted before the try block
RunningRow(id, r, startedAt) ==
    [id |-> id, owner |-> r, status |-> "running", summary |-> <<>>,
     details |-> NoDetails, timestamp |-> startedAt, version |-> 1]

\* JobSummary without the target date
JobSummaryNoDate(targetDate, rooms, total) ==
    <<Text("Job completed"), Text("Rooms processed"), NumTok(rooms),
      Text("Total surgeries"), NumTok(total)>>

\* `Job completed for ${targetDate}. Rooms processed: ${uniqueRooms.length}. Total surgeries: ${surgeries.length}.`
JobSummary(targetDate, rooms, total) ==
    <<Text("Job completed for"), DateTok(targetDate), Text("Rooms processed"), NumTok(rooms),
      Text("Total surgeries"), NumTok(total)>>

\* `No surgeries found for ${targetDate}. No messages sent.`
NoSurgeriesSummary(targetDate) ==
    <<Text("No surgeries found for"), DateTok(targetDate), Text("No messages sent")>>

\* `Job failed: ${err.message}`
FailedSummary == <<Text("Job failed"), Text("err.message")>>

Outcome(status, rooms, total) ==
    [returned |-> FALSE, status |-> status, rooms |-> rooms, total_surgeries |-> total]

\* RunQueryStep with the early return leaving the log row as it is
RunQueryStepNoLog(j, targetDate, sError, surgeries) ==
    IF sError
    THEN [j EXCEPT !.pc = "update", !.targetDate = targetDate, !.sError = TRUE,
                   !.trace = Append(@, "query"),
                   !.status = "error", !.summary = FailedSummary, !.details = NoDetails,
                   !.result = Outcome("error", <<>>, 0)]
    ELSE IF Len(surgeries) = 0
    THEN [j EXCEPT !.pc = "done", !.targetDate = targetDate,
                   !.trace = Append(@, "query"),
                   !.result = [Outcome("success", <<>>, 0) EXCEPT !.returned = TRUE]]
    ELSE [j EXCEPT !.pc = "loop", !.targetDate = targetDate,
                   !.trace = Append(@, "query"),
                   !.surgeries = surgeries,
                   !.uniqueRooms = groupedByRoom(surgeries, <<>>),
                   !.idx = 1]

\* RunQueryStep without `if (sError) throw sError`: the failed query counts as
\* one that found nothing
RunQueryStepIgnoreError(j, targetDate, sError, surgeries) ==
    IF sError \/ Len(surgeries) = 0
    THEN [j EXCEPT !.pc = "update", !.targetDate = targetDate, !.sError = sError,
                   !.trace = Append(@, "query"),
                   !.status = "success", !.summary = NoSurgeriesSummary(targetDate),
                   !.details = NoDetails,
                   !.result = Outcome("success", <<>>, 0)]
    ELSE [j EXCEPT !.pc = "loop", !.targetDate = targetDate,
                   !.trace = Append(@, "query"),
                   !.surgeries = surgeries,
                   !.uniqueRooms = groupedByRoom(surgeries, <<>>),
                   !.idx = 1]

\* the query of the surgeries and what follows it without an await: the throw of
\* sError into the catch block, the early return on no surgeries, the grouping
RunQueryStep(j, targetDate, sError, surgeries) ==
    IF sError
    THEN [j EXCEPT !.pc = "update", !.targetDate = targetDate, !.sError = TRUE,
                   !.trace = Append(@, "query"),
                   !.status = "error", !.summary = FailedSummary, !.details = NoDetails,
                   !.result = Outcome("error", <<>>, 0)]
    ELSE IF Len(surgeries) = 0
    THEN [j EXCEPT !.pc = "update", !.targetDate = targetDate,
                   !.trace = Append(@, "query"),
                   !.status = "success", !.summary = NoSurgeriesSummary(targetDate),
                   !.details = NoDetails,
                   !.result = Outcome("success", <<>>, 0)]
    ELSE [j EXCEPT !.pc = "loop", !.targetDate = targetDate,
                   !.trace = Append(@, "query"),
                   !.surgeries = surgeries,
                   !.uniqueRooms = groupedByRoom(surgeries, <<>>),
                   !.idx = 1]

\* the body of `for (const roomName of uniqueRooms)` for one room: the lookup
\* in mst_parameter, then skip, error or send
RoomOutcome(g, param, sendResult) ==
    IF param = "pError" THEN Unsent(g.room, "error")
    ELSE IF param = "none" THEN Unsent(g.room, "skipped")
    ELSE Attempt(g.room, sendResult.success, g.n, FALSE)

\* StepsOf with the sender invoked whatever the lookup returned
StepsOfSendAlways(param) == <<"lookup", "send">>

\* the awaits of one iteration: the lookup, and the send when a number was found
StepsOf(param) == IF param = "found" THEN <<"lookup", "send">> ELSE <<"lookup">>

\* RunRoomStep with `if (pError) throw pError`, as the resend handlers have it
RunRoomStepThrow(j, param, sendResult) ==
    LET results == Append(j.roomResults, RoomOutcome(j.uniqueRooms[j.idx], param, sendResult))
        total == Len(j.surgeries)
    IN IF param = "pError"
       THEN [j EXCEPT !.trace = @ \o StepsOf(param), !.pc = "update",
                      !.status = "error", !.summary = FailedSummary, !.details = NoDetails,
                      !.result = Outcome("error", <<>>, 0)]
       ELSE IF j.idx < Len(j.uniqueRooms)
       THEN [j EXCEPT !.roomResults = results, !.idx = @ + 1, !.trace = @ \o StepsOf(param)]
       ELSE [j EXCEPT !.roomResults = results, !.idx = @ + 1, !.trace = @ \o StepsOf(param),
                      !.pc = "update",
                      !.status = "success",
                      !.summary = JobSummary(j.targetDate, Len(j.uniqueRooms), total),
                      !.details = [present |-> TRUE, targetDate |-> j.targetDate,
                                   rooms |-> results],
                      !.result = Outcome("success", results, total)]

\* RunRoomStep with the status of the job taken from the sends
RunRoomStepStrict(j, param, sendResult) ==
    LET results == Append(j.roomResults, RoomOutcome(j.uniqueRooms[j.idx], param, sendResult))
        total == Len(j.surgeries)
        status == IF \A i \in 1 .. Len(results) : results[i].status = "sent"
                  THEN "success" ELSE "error"
    IN IF j.idx < Len(j.uniqueRooms)
       THEN [j EXCEPT !.roomResults = results, !.idx = @ + 1, !.trace = @ \o StepsOf(param)]
       ELSE [j EXCEPT !.roomResults = results, !.idx = @ + 1, !.trace = @ \o StepsOf(param),
                      !.pc = "update",
                      !.status = status,
                      !.summary = JobSummary(j.targetDate, Len(j.uniqueRooms), total),
                      !.details = [present |-> TRUE, targetDate |-> j.targetDate,
                                   rooms |-> results],
                      !.result = Outcome(status, results, total)]

\* one iteration of the loop and, after the last one, the summary and the
\* arguments of updateLog('success', summary, { targetDate, rooms: roomResults })
RunRoomStep(j, param, sendResult) ==
    LET results == Append(j.roomResults, RoomOutcome(j.uniqueRooms[j.idx], param, sendResult))
        total == Len(j.surgeries)
    IN IF j.idx < Len(j.uniqueRooms)
       THEN [j EXCEPT !.roomResults = results, !.idx = @ + 1, !.trace = @ \o StepsOf(param)]
       ELSE [j EXCEPT !.roomResults = results, !.idx = @ + 1, !.trace = @ \o StepsOf(param),
                      !.pc = "update",
                      !.status = "success",
                      !.summary = JobSummary(j.targetDate, Len(j.uniqueRooms), total),
                      !.details = [present |-> TRUE, targetDate |-> j.targetDate,
                                   rooms |-> results],
                      !.result = Outcome("success", results, total)]

\* updateLog falling back to an insert when there is no logId
updateLogOrInsert(rows, logId, status, summary, details) ==
    IF logId = 0
    THEN Append(rows, [id |-> Len(rows) + 1, owner |-> 0, status |-> status,
                       summary |-> summary, details |-> details,
                       timestamp |-> Len(rows) + 1, version |-> 1])
    ELSE [rows EXCEPT ![logId].status = status,
                      ![logId].summary = summary,
                      ![logId].details = details,
                      ![logId].version = @ + 1]

\* updateLog writing the summary and the details only, as the update of a resend does
updateLogDetailsOnly(rows, logId, status, summary, details) ==
    IF logId = 0 THEN rows
    ELSE [rows EXCEPT ![logId].summary = summary,
                      ![logId].details = details,
                      ![logId].version = @ + 1]

\* const updateLog = async (status, summary, details = null) => { if (!logId) return; ... }
updateLog(rows, logId, status, summary, details) ==
    IF logId = 0 THEN rows
    ELSE [rows EXCEPT ![logId].status = status,
                      ![logId].summary = summary,
                      ![logId].details = details,
                      ![logId].version = @ + 1]

\* RunStart with the log row inserted only once the surgeries have been fetched
RunStartAfterQuery(r) ==
    /\ run[r].pc = "idle"
    /\ logs' = Append(logs, RunningRow(Len(logs) + 1, r, clock))
    /\ run' = [run EXCEPT ![r] =
                [RunQueryStep([@ EXCEPT !.day = today, !.logId = Len(logs) + 1],
                              today + LeadDays, FALSE, SurgeriesFor(today + LeadDays))
                    EXCEPT !.trace = <<"query", "insert">>]]
    /\ clock' = clock + 1
    /\ UNCHANGED <<today, events, rs, report>>

\* const { data: logRow, error: logInsertError } = await supabase.from('cron_job_logs').insert(...)
RunStart(r) ==
    /\ run[r].pc = "idle"
    /\ \E logInsertError \in BOOLEAN :
        /\ logs' = IF logInsertError THEN logs
                   ELSE Append(logs, RunningRow(Len(logs) + 1, r, clock))
        /\ run' = [run EXCEPT ![r].pc = "query",
                              ![r].day = today,
                              ![r].logId = IF logInsertError THEN 0 ELSE Len(logs) + 1,
                              ![r].trace = Append(@, "insert")]
    /\ clock' = clock + 1
    /\ UNCHANGED <<today, events, rs, report>>

RunQuery(r) ==
    /\ run[r].pc = "query"
    /\ \E sError \in BOOLEAN :
        run' = [run EXCEPT ![r] =
                    RunQueryStep(@, today + LeadDays, sError, SurgeriesFor(today + LeadDays))]
    /\ UNCHANGED <<today, events, logs, clock, rs, report>>

\* const sendResult = await sendWhatsAppMessage(phoneNumber, message), as recorded
Call(token, resp) ==
    [made |-> TRUE, token |-> token, resp |-> resp,
     success |-> sendWhatsAppMessage(token, resp).success,
     requests |-> sendWhatsAppMessage(token, resp).requests]

\* one iteration, the rows of the room being of the shapes given; the message
\* is composed when the lookup has found a phone number, and the call of the
\* sender is kept where traced
RunRoomTraced(r, shapes, traced) ==
    /\ run[r].pc = "loop"
    /\ \E param \in {"pError", "none", "found"}, token \in BOOLEAN, resp \in ProviderResponses,
          rows \in RowsOf(run[r].uniqueRooms[run[r].idx].n, shapes) :
        run' = [run EXCEPT ![r] =
                    [RunRoomStep(run[r], param, sendWhatsAppMessage(token, resp))
                        EXCEPT !.message = IF param = "found"
                                           THEN Message(Orchestrator, run[r].targetDate, rows)
                                           ELSE run[r].message,
                               !.call = IF param = "found" /\ traced
                                        THEN Call(token, resp) ELSE run[r].call]]
    /\ UNCHANGED <<today, events, logs, clock, rs, report>>

RunRoomWith(r, shapes) == RunRoomTraced(r, shapes, FALSE)

RunRoom(r) == RunRoomWith(r, {OptionalColumns})

\* await updateLog(...); return { status, summary, targetDate, rooms, total_surgeries }
RunUpdateLog(r) ==
    /\ run[r].pc = "update"
    /\ logs' = updateLog(logs, run[r].logId, run[r].status, run[r].summary, run[r].details)
    /\ run' = [run EXCEPT ![r].pc = "done",
                          ![r].trace = Append(@, "update"),
                          ![r].result.returned = TRUE]
    /\ UNCHANGED <<today, events, clock, rs, report>>

\* ------------------------------------------------ /api/cron/whatsapp-daily
\* `Bearer ${cronSecret}`: an unset secret reads "undefined" in the template
Bearer(cronSecret) == <<"Bearer", IF cronSecret = NULL THEN "undefined" ELSE cronSecret>>

XVercelCronValues == {NULL, "1", "true"}
CronSecrets == {NULL, "", "s3cret"}
AuthorizationValues ==
    {<<>>, <<"Bearer", "s3cret">>, <<"Bearer", "guess">>, <<"Bearer", "undefined">>,
     <<"Bearer", "">>}

\* const isVercelCron = req.headers['x-vercel-cron'] === '1'
isVercelCron(xVercelCron) == xVercelCron = "1"

\* isAuthorized without the test that a secret is configured
isAuthorizedAnySecret(cronSecret, authHeader) == authHeader = Bearer(cronSecret)

\* const isAuthorized = cronSecret && authHeader === `Bearer ${cronSecret}`
isAuthorized(cronSecret, authHeader) ==
    /\ cronSecret # NULL
    /\ cronSecret # ""
    /\ authHeader = Bearer(cronSecret)

\* a request reaches the server
Request(r, xVercelCron, authHeader, cronSecret) ==
    /\ run[r].pc = "idle"
    /\ ~run[r].request.arrived
    /\ run' = [run EXCEPT ![r].request =
                    [arrived |-> TRUE, xVercelCron |-> xVercelCron,
                     authorization |-> authHeader, cronSecret |-> cronSecret]]
    /\ UNCHANGED <<today, events, logs, clock, rs, report>>

\* the handler: 401, or runDailyWhatsAppJob up to its first await
TriggerDaily(r) ==
    /\ run[r].request.arrived
    /\ run[r].code = 0
    /\ IF \/ isVercelCron(run[r].request.xVercelCron)
          \/ isAuthorized(run[r].request.cronSecret, run[r].request.authorization)
       THEN RunStart(r)
       ELSE /\ run[r].pc = "idle"
            /\ run' = [run EXCEPT ![r].code = 401]
            /\ UNCHANGED <<today, events, logs, clock, rs, report>>

\* ------------------------------------------------------ log of record
\* Matching without `.ilike('summary', ...)`: every row of the job
MatchingAnyRow(rows, date) == {i \in 1 .. Len(rows) : TRUE}

\* the rows whose summary contains the date
Matching(rows, date) == {i \in 1 .. Len(rows) : Contains(rows[i].summary, date)}

\* LatestLog with the order ascending: the oldest matching row
LatestLogOldest(rows, date) ==
    LET hits == Matching(rows, date)
    IN IF hits = {} THEN NoRow
       ELSE rows[CHOOSE i \in hits : \A j \in hits : rows[i].timestamp <= rows[j].timestamp]

\* .ilike('summary', `%${date}%`).order('timestamp', { ascending: false }).limit(1)
LatestLog(rows, date) ==
    LET hits == Matching(rows, date)
    IN IF hits = {} THEN NoRow
       ELSE rows[CHOOSE i \in hits : \A j \in hits : rows[j].timestamp <= rows[i].timestamp]

\* ------------------------------------- /api/cron/whatsapp-resend, /api/whatsapp/resend
\* ResendStartStep without the return on an empty result
ResendStartStepNoCheck(j, date, room, sError, n) ==
    IF date = NotGiven \/ room = NULL
    THEN [j EXCEPT !.pc = "done", !.date = date, !.room = room, !.code = 400]
    ELSE IF sError
    THEN [j EXCEPT !.pc = "done", !.date = date, !.room = room, !.code = 500,
                   !.details = ErrMessage, !.trace = Append(@, "query")]
    ELSE [j EXCEPT !.pc = "send", !.date = date, !.room = room, !.n = n,
                   !.trace = Append(@, "query")]

\* ResendStartStep without `if (!date || !room) return res.status(400)`
ResendStartStepNoValidation(j, date, room, sError, n) ==
    IF sError
    THEN [j EXCEPT !.pc = "done", !.date = date, !.room = room, !.code = 500,
                   !.details = ErrMessage, !.trace = Append(@, "query")]
    ELSE IF n = 0
    THEN [j EXCEPT !.pc = "done", !.date = date, !.room = room, !.code = 404,
                   !.trace = Append(@, "query")]
    ELSE [j EXCEPT !.pc = "send", !.date = date, !.room = room, !.n = n,
                   !.trace = Append(@, "query")]

\* validation, then the query of the room's surgeries: 400, 500 (the catch block
\* answers { error: 'Internal server error', details: err.message }), 404 or go on
ResendStartStep(j, date, room, sError, n) ==
    IF date = NotGiven \/ room = NULL
    THEN [j EXCEPT !.pc = "done", !.date = date, !.room = room, !.code = 400]
    ELSE IF sError
    THEN [j EXCEPT !.pc = "done", !.date = date, !.room = room, !.code = 500,
                   !.details = ErrMessage, !.trace = Append(@, "query")]
    ELSE IF n = 0
    THEN [j EXCEPT !.pc = "done", !.date = date, !.room = room, !.code = 404,
                   !.trace = Append(@, "query")]
    ELSE [j EXCEPT !.pc = "send", !.date = date, !.room = room, !.n = n,
                   !.trace = Append(@, "query")]

\* a request to one of the two handlers, which differ in the message they
\* compose and in nothing else
\* after: the resends that had responded when this one arrived (history)
ResendStartAt(p, date, room, entry) ==
    /\ rs[p].pc = "idle"
    /\ \E sError \in BOOLEAN :
        rs' = [rs EXCEPT ![p] =
                [ResendStartStep(@, date, room, sError,
                     IF date = NotGiven \/ room = NULL THEN 0
                     ELSE Len(SurgeriesForRoom(date, room)))
                    EXCEPT !.after = {q \in Resends : rs[q].pc = "done"},
                           !.entry = entry]]
    /\ UNCHANGED <<today, events, logs, clock, run, report>>

ResendStart(p, date, room) == ResendStartAt(p, date, room, CronResend)

\* the lookup in mst_parameter (500 on pError, 400 on no phone), then the send
ResendSendStep(j, param, sendResult) ==
    IF param = "pError"
    THEN [j EXCEPT !.pc = "done", !.code = 500, !.details = ErrMessage,
                   !.trace = Append(@, "lookup")]
    ELSE IF param = "none"
    THEN [j EXCEPT !.pc = "done", !.code = 400, !.trace = Append(@, "lookup")]
    ELSE [j EXCEPT !.pc = "readlog", !.success = sendResult.success,
                   !.trace = @ \o <<"lookup", "send">>]

\* the lookup, the message and the send, the rows fetched being of the shapes
\* given; the call of the sender is kept where traced
ResendSendTraced(p, shapes, traced) ==
    /\ rs[p].pc = "send"
    /\ \E param \in {"pError", "none", "found"}, token \in BOOLEAN, resp \in ProviderResponses,
          rows \in RowsOf(rs[p].n, shapes) :
        rs' = [rs EXCEPT ![p] =
                    [ResendSendStep(rs[p], param, sendWhatsAppMessage(token, resp))
                        EXCEPT !.message = IF param = "found"
                                           THEN Message(rs[p].entry, rs[p].date, rows)
                                           ELSE rs[p].message,
                               !.call = IF param = "found" /\ traced
                                        THEN Call(token, resp) ELSE rs[p].call]]
    /\ UNCHANGED <<today, events, logs, clock, run, report>>

ResendSendWith(p, shapes) == ResendSendTraced(p, shapes, FALSE)

ResendSend(p) == ResendSendWith(p, {OptionalColumns})

\* const { data: existingLogs } = await supabase.from('cron_job_logs')...limit(1)
ResendReadLog(p) ==
    /\ rs[p].pc = "readlog"
    /\ rs' = [rs EXCEPT ![p].pc = "write",
                        ![p].latestLog = LatestLog(logs, rs[p].date),
                        ![p].running = {r \in Runs : /\ run[r].logId # 0
                                                     /\ logs[run[r].logId].status = "running"},
                        ![p].trace = Append(@, "readlog")]
    /\ UNCHANGED <<today, events, logs, clock, run, report>>

\* Upsert without the findIndex: the result is always pushed
UpsertPush(rooms, resendStatus) == Append(rooms, resendStatus)

\* const roomIdx = details.rooms.findIndex(r => r.room === room); replace or push
Upsert(rooms, resendStatus) ==
    LET roomIdx == IndexOfRoom(rooms, resendStatus.room)
    IN IF roomIdx > 0 THEN [rooms EXCEPT ![roomIdx] = resendStatus]
       ELSE Append(rooms, resendStatus)

\* latestLog.summary + ` (Manual resend for ${room} at ${new Date().toLocaleTimeString()})`
ResendNote(room) == <<Text("Manual resend for"), RoomTok(room), Text("at"), Text("time")>>

\* ResendSummary without the date
ResendSummaryNoDate(room, date) == <<Text("Manual resend for room"), RoomTok(room)>>

\* `Manual resend for room ${room} on date ${date}`
ResendSummary(room, date) ==
    <<Text("Manual resend for room"), RoomTok(room), Text("on date"), DateTok(date)>>

\* MergedDetails as an upsert into the row as it is when the write arrives
MergedIntoCurrent(latestLog, current, resendStatus) ==
    [present |-> TRUE, targetDate |-> current.details.targetDate,
     rooms |-> Upsert(current.details.rooms, resendStatus)]

\* MergedDetails keeping the RoomResult of the resend alone
MergedAlone(latestLog, current, resendStatus) ==
    [present |-> TRUE, targetDate |-> latestLog.details.targetDate,
     rooms |-> <<resendStatus>>]

\* the details written back: those read into latestLog, with this room upserted
MergedDetails(latestLog, current, resendStatus) ==
    [present |-> TRUE, targetDate |-> latestLog.details.targetDate,
     rooms |-> Upsert(latestLog.details.rooms, resendStatus)]

\* if (latestLog) { ...update({ details, summary }).eq('id', latestLog.id) } else { ...insert(...) }
ResendWriteLog(p) ==
    /\ rs[p].pc = "write"
    /\ LET j == rs[p]
           resendStatus == Attempt(j.room, j.success, j.n, TRUE)
           id == j.latestLog.id
       IN IF id # 0
          THEN /\ logs' = [logs EXCEPT
                              ![id].details = MergedDetails(j.latestLog, logs[id], resendStatus),
                              ![id].summary = j.latestLog.summary \o ResendNote(j.room),
                              ![id].version = @ + 1]
               /\ rs' = [rs EXCEPT ![p].pc = "done", ![p].code = 200, ![p].wrote = id,
                                   ![p].wroteVersion = logs[id].version + 1,
                                   ![p].trace = Append(@, "update")]
               /\ clock' = clock
          ELSE /\ logs' = Append(logs,
                              [id |-> Len(logs) + 1, owner |-> 0,
                               status |-> IF j.success THEN "success" ELSE "error",
                               summary |-> ResendSummary(j.room, j.date),
                               details |-> [present |-> TRUE, targetDate |-> j.date,
                                            rooms |-> <<resendStatus>>],
                               timestamp |-> clock, version |-> 1])
               /\ rs' = [rs EXCEPT ![p].pc = "done", ![p].code = 200,
                                   ![p].wrote = Len(logs) + 1, ![p].wroteVersion = 1,
                                   ![p].inserted = TRUE,
                                   ![p].trace = Append(@, "insert")]
               /\ clock' = clock + 1
    /\ UNCHANGED <<today, events, run, report>>

\* ------------------------------------------------ /api/cron/whatsapp-status
\* 1. Logic for date calculation: an executionDate that is no date leaves date
\* as the request gave it, undefined (NotGiven) when it gave none
ResolveDate(date, executionDate, now) ==
    IF executionDate # NotGiven
    THEN IF executionDate # InvalidDate THEN executionDate + LeadDays ELSE date
    ELSE IF date # NotGiven THEN date
    ELSE now + LeadDays

\* detailsObj.rooms.forEach(r => { logResults[r.room] = ... }): the last entry of a room wins
LastIndexOfRoom(rooms, room) ==
    LET hits == {i \in 1 .. Len(rooms) : rooms[i].room = room}
    IN IF hits = {} THEN 0 ELSE CHOOSE i \in hits : \A j \in hits : j <= i

\* StatusRecord with has_updates taken from the counts alone
StatusRecordAnyStatus(g, latestLog, roomPhones) ==
    LET rooms == latestLog.details.rooms
        e == LastIndexOfRoom(rooms, g.room)
        f == IndexOfRoom(rooms, g.room)
        logSurgeryCount == IF e # 0 /\ rooms[f].counted THEN rooms[f].surgery_count ELSE 0
    IN [room |-> g.room,
        surgery_count |-> g.n,
        log_surgery_count |-> logSurgeryCount,
        has_updates |-> g.n > logSurgeryCount,
        status |-> IF e # 0 THEN rooms[e].status ELSE "need_resend",
        phone |-> IF e # 0 /\ rooms[e].phone # NULL THEN rooms[e].phone
                  ELSE IF g.room \in roomPhones THEN PHONE ELSE NULL,
        failure_reason |-> e # 0 /\ rooms[e].reason,
        last_attempt |-> latestLog.timestamp]

\* 7. Build final status list: the record of one room
StatusRecord(g, latestLog, roomPhones) ==
    LET rooms == latestLog.details.rooms
        e == LastIndexOfRoom(rooms, g.room)
        f == IndexOfRoom(rooms, g.room)
        logSurgeryCount == IF e # 0 /\ rooms[f].counted THEN rooms[f].surgery_count ELSE 0
    IN [room |-> g.room,
        surgery_count |-> g.n,
        log_surgery_count |-> logSurgeryCount,
        has_updates |-> IF e # 0 THEN rooms[e].status = "sent" /\ g.n > logSurgeryCount
                        ELSE g.n > 0,
        status |-> IF e # 0 THEN rooms[e].status ELSE "need_resend",
        phone |-> IF e # 0 /\ rooms[e].phone # NULL THEN rooms[e].phone
                  ELSE IF g.room \in roomPhones THEN PHONE ELSE NULL,
        failure_reason |-> e # 0 /\ rooms[e].reason,
        last_attempt |-> latestLog.timestamp]

\* StatusReport with the log taken without `.ilike('summary', ...)`: the most
\* recent row of the job, whatever its summary
StatusReportAnyLog(date, roomPhones) ==
    LET surgeries == SurgeriesFor(date)
        roomCounts == groupedByRoom(surgeries, <<>>)
        latestLog == IF logs = <<>> THEN NoRow
                     ELSE logs[CHOOSE i \in 1 .. Len(logs) :
                                \A j \in 1 .. Len(logs) : logs[j].timestamp <= logs[i].timestamp]
    IN [target_date |-> date,
        total_surgeries |-> Len(surgeries),
        rooms |-> [i \in 1 .. Len(roomCounts) |-> StatusRecord(roomCounts[i], latestLog, roomPhones)],
        overall_log_status |-> IF latestLog.id # 0 THEN latestLog.status ELSE "no_log_found",
        log |-> latestLog.id,
        code |-> 200,
        original_params |-> [date |-> NotGiven, executionDate |-> NotGiven],
        details |-> NULL]

\* 2. to 7.: the surgeries of the date, their rooms, the log of record, the list
StatusReport(date, roomPhones) ==
    LET surgeries == SurgeriesFor(date)
        roomCounts == groupedByRoom(surgeries, <<>>)
        latestLog == LatestLog(logs, date)
    IN [target_date |-> date,
        total_surgeries |-> Len(surgeries),
        rooms |-> [i \in 1 .. Len(roomCounts) |-> StatusRecord(roomCounts[i], latestLog, roomPhones)],
        overall_log_status |-> IF latestLog.id # 0 THEN latestLog.status ELSE "no_log_found",
        log |-> latestLog.id,
        code |-> 200,
        original_params |-> [date |-> NotGiven, executionDate |-> NotGiven],
        details |-> NULL]

\* the report for a date that is undefined, when the store answers the queries
\* at all: no row has that date and no summary contains it
UndefinedReport ==
    [NoReport EXCEPT !.target_date = NotGiven, !.overall_log_status = "no_log_found",
                     !.code = 200]

\* failed: sError or lError is thrown, the answer is
\* res.status(500).json({ error: 'Internal server error', details: err.message })
StatusQuery(date, executionDate) ==
    LET target == ResolveDate(date, executionDate, today)
        params == [date |-> date, executionDate |-> executionDate]
    IN /\ target \in Dates \cup {NotGiven}
       /\ \E failed \in BOOLEAN, roomPhones \in {{}, {WardA, WardB, UNKNOWN}} :
            report' = IF failed THEN [NoReport EXCEPT !.code = 500, !.details = ErrMessage,
                                                      !.original_params = params]
                      ELSE IF target = NotGiven
                      THEN [UndefinedReport EXCEPT !.original_params = params]
                      ELSE [StatusReport(target, roomPhones) EXCEPT !.original_params = params]
       /\ UNCHANGED <<today, events, logs, clock, run, rs>>

EventActions(dates, rooms) ==
    \/ \E d \in dates, k \in rooms : AddEvent(d, k)
    \/ \E d \in dates, k \in rooms : DeleteEvent(d, k)

RunActions ==
    \/ \E r \in Runs : RunStart(r)
    \/ \E r \in Runs : RunQuery(r)
    \/ \E r \in Runs : RunRoom(r)
    \/ \E r \in Runs : RunUpdateLog(r)

ResendActions(procs, dates, rooms) ==
    \/ \E p \in procs, d \in dates, room \in rooms : ResendStart(p, d, room)
    \/ \E p \in procs : ResendSend(p)
    \/ \E p \in procs : ResendReadLog(p)
    \/ \E p \in procs : ResendWriteLog(p)

StatusActions(dates, days) ==
    \E d \in dates, e \in days : StatusQuery(d, e)

Next ==
    \/ RunActions
    \/ ResendActions(Resends, {LeadDays}, {WardA, WardB})

\* the tables of at most MaxEvents events, all of the first target date and of
\* the rooms given
RECURSIVE SumOver(_, _)
SumOver(t, rooms) ==
    IF rooms = {} THEN 0
    ELSE LET k == CHOOSE c \in rooms : TRUE IN t[k] + SumOver(t, rooms \ {k})

TablesOver(rooms) ==
    {[d \in Dates |-> [k \in StoredRooms |-> IF d = LeadDays /\ k \in rooms THEN t[k] ELSE 0]] :
        t \in {u \in [rooms -> 0 .. MaxEvents] : SumOver(u, rooms) <= MaxEvents}}

InitOver(rooms) ==
    /\ today = 0
    /\ events \in TablesOver(rooms)
    /\ logs = <<>>
    /\ clock = 1
    /\ run = [r \in Runs |-> IdleRun]
    /\ rs = [p \in Resends |-> IdleResend]
    /\ report = NoReport

InitRace == InitOver({WardA, WardB})

Spec == InitRace /\ [][Next]_vars

NextRun ==
    \/ EventActions({today + LeadDays}, StoredRooms)
    \/ RunActions

SpecRun == Init /\ [][NextRun]_vars

NextStatus ==
    \/ EventActions({LeadDays}, {WardA, NULL})
    \/ RunActions
    \/ StatusActions({LeadDays, NotGiven}, {0, NotGiven, InvalidDate})

InitStatus == Init /\ today = 0

SpecStatus == InitStatus /\ [][NextStatus]_vars

NextGateway ==
    \/ EventActions({today + LeadDays}, {WardA, NULL})
    \/ \E r \in Runs, x \in XVercelCronValues, a \in AuthorizationValues, c \in CronSecrets :
          Request(r, x, a, c)
    \/ \E r \in Runs : TriggerDaily(r)
    \/ \E r \in Runs : RunQuery(r)
    \/ \E r \in Runs : RunRoom(r)
    \/ \E r \in Runs : RunUpdateLog(r)

SpecGateway == Init /\ [][NextGateway]_vars

\* the first of the resends
FirstResend == {p \in Resends : p = 1}

\* a run and a resend at either handler, for one room whose rows vary; the
\* request may lack its date or its room
NextRender ==
    \/ \E r \in Runs : RunStart(r)
    \/ \E r \in Runs : RunQuery(r)
    \/ \E r \in Runs : RunRoomWith(r, RowShapes)
    \/ \E r \in Runs : RunUpdateLog(r)
    \/ \E p \in FirstResend, entry \in {CronResend, WhatsAppResend},
          d \in {LeadDays, NotGiven}, room \in {WardA, NULL} :
          ResendStartAt(p, d, room, entry)
    \/ \E p \in FirstResend : ResendSendWith(p, RowShapes)
    \/ \E p \in FirstResend : ResendReadLog(p)
    \/ \E p \in FirstResend : ResendWriteLog(p)

InitRender == InitOver({WardA})

SpecRender == InitRender /\ [][NextRender]_vars

\* a run, one resend and status queries over a fixed table of events
NextReconcile ==
    \/ RunActions
    \/ ResendActions(FirstResend, {LeadDays}, {WardA, WardB})
    \/ StatusActions({LeadDays}, {NotGiven})

InitReconcile == InitOver({WardA, WardB, NULL})

SpecReconcile == InitReconcile /\ [][NextReconcile]_vars

\* a run and a resend over one room, every call of the sender kept
NextSender ==
    \/ \E r \in Runs : RunStart(r)
    \/ \E r \in Runs : RunQuery(r)
    \/ \E r \in Runs : RunRoomTraced(r, {OptionalColumns}, TRUE)
    \/ \E r \in Runs : RunUpdateLog(r)
    \/ \E p \in FirstResend : ResendStart(p, LeadDays, WardA)
    \/ \E p \in FirstResend : ResendSendTraced(p, {OptionalColumns}, TRUE)
    \/ \E p \in FirstResend : ResendReadLog(p)
    \/ \E p \in FirstResend : ResendWriteLog(p)

InitSender == InitOver({WardA})

SpecSender == InitSender /\ [][NextSender]_vars

\* a run, a resend naming the sentinel group and status queries, over events
\* whose stored room is the sentinel text or absent
NextSentinel ==
    \/ RunActions
    \/ ResendActions(FirstResend, {LeadDays}, {UNKNOWN})
    \/ StatusActions({LeadDays}, {NotGiven})

InitSentinel == InitOver({UNKNOWN, NULL})

SpecSentinel == InitSentinel /\ [][NextSentinel]_vars

\* ----------------------------------------------------------------- claims
\* what a finished invocation leaves behind
Finished(r) == run[r].pc = "done"

\* the loop over uniqueRooms was entered and left
LoopCompleted(r) == Len(run[r].uniqueRooms) > 0 /\ run[r].pc \in {"update", "done"}

\* K: the distinct groups of the surgeries fetched, the sentinel being one group
GroupsOf(surgeries) == {RoomOf(surgeries[i]) : i \in 1 .. Len(surgeries)}

RECURSIVE SumCounts(_)
SumCounts(rooms) ==
    IF rooms = <<>> THEN 0
    ELSE (IF Head(rooms).counted THEN Head(rooms).surgery_count ELSE 0) + SumCounts(Tail(rooms))

RoomsOf(rooms) == {rooms[i].room : i \in 1 .. Len(rooms)}

OnePerRoom(rooms) ==
    \A i, k \in 1 .. Len(rooms) : rooms[i].room = rooms[k].room => i = k

\* C1: a run over N events in K groups returns exactly K RoomResults, one per
\* group, whose recorded surgery counts sum to N.
C1_CountsSumToN ==
    \A r \in Runs :
        (Finished(r) /\ Len(run[r].surgeries) > 0) =>
            /\ Len(run[r].result.rooms) = Cardinality(GroupsOf(run[r].surgeries))
            /\ RoomsOf(run[r].result.rooms) = GroupsOf(run[r].surgeries)
            /\ SumCounts(run[r].result.rooms) = Len(run[r].surgeries)

\* C2: a failed lookup or a failed send is recorded in the RoomResult of its own
\* group; every group of the run gets its RoomResult, in order, the run is not
\* failed and the RoomResults of all groups reach the log row.
C2_FailuresIsolated ==
    \A r \in Runs :
        /\ run[r].pc = "loop" =>
              /\ Len(run[r].roomResults) = run[r].idx - 1
              /\ run[r].idx <= Len(run[r].uniqueRooms)
        /\ LoopCompleted(r) =>
              /\ Len(run[r].roomResults) = Len(run[r].uniqueRooms)
              /\ \A i \in 1 .. Len(run[r].uniqueRooms) :
                    /\ run[r].roomResults[i].room = run[r].uniqueRooms[i].room
                    /\ run[r].roomResults[i].status \in {"sent", "send_failed", "skipped", "error"}
              /\ run[r].details.rooms = run[r].roomResults
        /\ (LoopCompleted(r) /\ Finished(r)) =>
              /\ run[r].result.rooms = run[r].roomResults
              /\ run[r].logId # 0 => logs[run[r].logId].details.rooms = run[r].roomResults

\* a run whose first group failed went on to send to a later group and logged both
C2_Witness ==
    \E r \in Runs :
        /\ Finished(r) /\ run[r].logId # 0
        /\ Len(run[r].roomResults) >= 2
        /\ run[r].roomResults[1].status \in {"error", "skipped", "send_failed"}
        /\ run[r].roomResults[2].status = "sent"
        /\ logs[run[r].logId].details.rooms = run[r].roomResults

\* the query of the surgeries returned no row
NoSurgeries(r) ==
    /\ Count(run[r].trace, "query") = 1
    /\ ~run[r].sError
    /\ Len(run[r].surgeries) = 0

\* C7: a run that finds no surgery for its target date ends with its log row in
\* status success without RoomResults, returns an empty room list and never
\* invokes the sender.
C7_NoSurgeriesNoSend ==
    \A r \in Runs :
        (Finished(r) /\ NoSurgeries(r)) =>
            /\ run[r].result.returned
            /\ run[r].result.status = "success"
            /\ run[r].result.rooms = <<>>
            /\ run[r].result.total_surgeries = 0
            /\ Count(run[r].trace, "send") = 0
            /\ Count(run[r].trace, "lookup") = 0
            /\ run[r].logId # 0 =>
                  /\ logs[run[r].logId].status = "success"
                  /\ logs[run[r].logId].details.rooms = <<>>
                  /\ Contains(logs[run[r].logId].summary, run[r].targetDate)

C7_Witness ==
    \E r \in Runs :
        /\ Finished(r) /\ NoSurgeries(r) /\ run[r].logId # 0
        /\ logs[run[r].logId].status = "success"

\* C8: the insert of the log row, with status running, is the first step of a
\* run: it precedes the query of the surgeries, every lookup and every send, and
\* the row stays running until the run updates it.
C8_InsertFirst ==
    \A r \in Runs :
        /\ run[r].trace # <<>> => run[r].trace[1] = "insert"
        /\ \A i \in 2 .. Len(run[r].trace) : run[r].trace[i] # "insert"
        /\ run[r].pc = "idle" => run[r].trace = <<>>
        /\ run[r].logId # 0 =>
              /\ run[r].logId <= Len(logs)
              /\ logs[run[r].logId].owner = r
              /\ run[r].pc \in {"query", "loop", "update"} =>
                    logs[run[r].logId].status = "running"

\* a run that inserted its row and has since queried, looked up and sent
C8_Witness ==
    \E r \in Runs :
        /\ run[r].logId # 0
        /\ run[r].pc = "update"
        /\ logs[run[r].logId].status = "running"
        /\ Count(run[r].trace, "query") = 1
        /\ Count(run[r].trace, "lookup") >= 1
        /\ Count(run[r].trace, "send") >= 1

\* C10: once the loop has completed the run is a success, in its log row and in
\* the outcome it returns, whatever the RoomResults are; the failures show only
\* in the RoomResults.
C10_SuccessWhateverTheSends ==
    \A r \in Runs :
        LoopCompleted(r) =>
            /\ run[r].status = "success"
            /\ run[r].result.status = "success"
            /\ Finished(r) =>
                  /\ run[r].result.returned
                  /\ run[r].logId # 0 =>
                        /\ logs[run[r].logId].status = "success"
                        /\ Contains(logs[run[r].logId].summary, run[r].targetDate)

\* a finished run of two groups, none of them sent, logged as success
C10_Witness ==
    \E r \in Runs :
        /\ Finished(r) /\ run[r].logId # 0
        /\ Len(run[r].roomResults) >= 2
        /\ \A i \in 1 .. Len(run[r].roomResults) : run[r].roomResults[i].status # "sent"
        /\ \E i \in 1 .. Len(run[r].roomResults) : run[r].roomResults[i].status = "send_failed"
        /\ logs[run[r].logId].status = "success"
        /\ run[r].result.status = "success"

\* a resend that answered 200: it sent and wrote the log
Resent(p) == rs[p].pc = "done" /\ rs[p].code = 200

resendStatusOf(p) == Attempt(rs[p].room, rs[p].success, rs[p].n, TRUE)

\* q resends the group p has resent, and arrived after p had responded
SameGroupAgain(p, q) ==
    /\ p # q
    /\ Resent(p)
    /\ p \in rs[q].after
    /\ rs[q].date = rs[p].date
    /\ rs[q].room = rs[p].room

\* the row p wrote is still the log of record of p's date, as p left it
StillOfRecord(p) ==
    /\ LatestLog(logs, rs[p].date).id = rs[p].wrote
    /\ LatestLog(logs, rs[p].date).version = rs[p].wroteVersion

\* C3: a second resend of the same group for the same date, made after the
\* first has responded, finds a log row, inserts none, and leaves in the log of
\* record exactly one RoomResult of the group: its own.
C3_ResendIdempotent ==
    \A p, q \in Resends :
        SameGroupAgain(p, q) =>
            /\ rs[q].pc \in {"write", "done"} /\ rs[q].code \in {0, 200} =>
                  rs[q].latestLog.id # 0
            /\ Resent(q) =>
                  /\ ~rs[q].inserted
                  /\ StillOfRecord(q) =>
                        LET rooms == LatestLog(logs, rs[q].date).details.rooms
                        IN /\ Cardinality({i \in 1 .. Len(rooms) : rooms[i].room = rs[q].room}) = 1
                           /\ rooms[IndexOfRoom(rooms, rs[q].room)] = resendStatusOf(q)

\* no row before the first resend, which inserted one; the second, with the
\* other outcome, overwrote the RoomResult in that row
C3_Witness ==
    \E p, q \in Resends :
        /\ SameGroupAgain(p, q) /\ Resent(q)
        /\ rs[p].inserted
        /\ rs[q].wrote = rs[p].wrote
        /\ rs[p].success /\ ~rs[q].success
        /\ StillOfRecord(q)
        /\ Len(logs) = 1
        /\ logs[1].details.rooms = <<resendStatusOf(q)>>

\* C4: in every row of the log the details hold at most one RoomResult per room.
C4_OneResultPerRoom ==
    \A i \in 1 .. Len(logs) : OnePerRoom(logs[i].details.rooms)

\* a row a run has filled for two rooms and a resend has then upserted into
C4_Witness ==
    \E i \in 1 .. Len(logs) :
        /\ logs[i].owner # 0
        /\ Len(logs[i].details.rooms) = 2
        /\ \E k \in 1 .. 2 : logs[i].details.rooms[k].resent
        /\ \E p \in Resends : Resent(p) /\ rs[p].wrote = i

\* p and q read the same row in the same state, both wrote it, q last
Raced(p, q) ==
    /\ p # q
    /\ Resent(p) /\ Resent(q)
    /\ ~rs[p].inserted /\ ~rs[q].inserted
    /\ rs[p].latestLog.id = rs[q].latestLog.id
    /\ rs[p].latestLog.version = rs[q].latestLog.version
    /\ rs[p].room # rs[q].room
    /\ rs[p].wroteVersion < rs[q].wroteVersion
    /\ logs[rs[q].wrote].version = rs[q].wroteVersion

\* C6: when two resends have read the same state of the same row and both have
\* written it, the row is what the later writer read with its own RoomResult
\* upserted: what the earlier writer merged for its room is gone.
C6_LaterWriteDiscardsEarlierMerge ==
    \A p, q \in Resends :
        Raced(p, q) =>
            LET rooms == logs[rs[q].wrote].details.rooms
                old == rs[q].latestLog.details.rooms
            IN /\ rooms = Upsert(old, resendStatusOf(q))
               /\ IF IndexOfRoom(old, rs[p].room) = 0
                  THEN rs[p].room \notin RoomsOf(rooms)
                  ELSE rooms[IndexOfRoom(rooms, rs[p].room)] = old[IndexOfRoom(old, rs[p].room)]

\* both resends answered 200, the first with a successful send, and the row
\* holds no resent RoomResult of the first one's room
C6_Witness ==
    \E p, q \in Resends :
        /\ Raced(p, q)
        /\ rs[p].success
        /\ \A i \in 1 .. Len(logs[rs[q].wrote].details.rooms) :
              logs[rs[q].wrote].details.rooms[i].room = rs[p].room =>
                  ~logs[rs[q].wrote].details.rooms[i].resent
        /\ \E i \in 1 .. Len(logs[rs[q].wrote].details.rooms) :
              logs[rs[q].wrote].details.rooms[i] = resendStatusOf(q)

\* the status query answered
Reported == report.code = 200

\* C5 as stated: has_updates is true exactly when the logged status is sent and
\* the current count exceeds the logged count.
C5_HasUpdatesOnlyWhenSent ==
    Reported =>
        \A i \in 1 .. Len(report.rooms) :
            report.rooms[i].has_updates <=>
                /\ report.rooms[i].status = "sent"
                /\ report.rooms[i].surgery_count > report.rooms[i].log_surgery_count

\* C5 amended: has_updates is true exactly when the group has no logged
\* RoomResult (status need_resend), or its logged status is sent and the
\* current count exceeds the logged count.
C5_HasUpdates ==
    Reported =>
        \A i \in 1 .. Len(report.rooms) :
            /\ report.rooms[i].has_updates <=>
                  \/ report.rooms[i].status = "need_resend"
                  \/ /\ report.rooms[i].status = "sent"
                     /\ report.rooms[i].surgery_count > report.rooms[i].log_surgery_count
            /\ report.rooms[i].status = "need_resend" =>
                  /\ report.rooms[i].log_surgery_count = 0
                  /\ report.rooms[i].surgery_count > 0

\* a report with a group logged as sent whose count has since grown
C5_Witness ==
    /\ Reported
    /\ \E i \in 1 .. Len(report.rooms) :
          /\ report.rooms[i].status = "sent"
          /\ report.rooms[i].log_surgery_count >= 1
          /\ report.rooms[i].surgery_count > report.rooms[i].log_surgery_count
          /\ report.rooms[i].has_updates

RECURSIVE Versions(_)
Versions(rows) == IF rows = <<>> THEN 0 ELSE Head(rows).version + Versions(Tail(rows))

\* the writes to cron_job_logs the handlers account for: the insert and the
\* update of a run that holds a logId, the write of a resend that answered 200
RECURSIVE RunWrites(_)
RunWrites(n) ==
    IF n = 0 THEN 0
    ELSE (IF run[n].logId = 0 THEN 0 ELSE IF Finished(n) THEN 2 ELSE 1) + RunWrites(n - 1)

RECURSIVE ResendWrites(_)
ResendWrites(n) ==
    IF n = 0 THEN 0 ELSE (IF Resent(n) THEN 1 ELSE 0) + ResendWrites(n - 1)

InsertFailed(r) == run[r].pc # "idle" /\ run[r].logId = 0

Attempted(rooms) == {i \in 1 .. Len(rooms) : rooms[i].status \in {"sent", "send_failed"}}

\* C9: a run whose log insert failed still queries, sends to every group whose
\* destination resolves and returns its outcome; it writes nothing to the log
\* (every write to the log is some other handler's), so no status report takes
\* its log from this run.
C9_FailedInsertLeavesNoRow ==
    /\ Versions(logs) = RunWrites(NumRuns) + ResendWrites(NumResends)
    /\ \A r \in Runs :
        InsertFailed(r) =>
            /\ \A i \in 1 .. Len(logs) : logs[i].owner # r
            /\ Finished(r) =>
                  /\ Count(run[r].trace, "query") = 1
                  /\ run[r].result.returned
                  /\ ~run[r].sError =>
                        /\ run[r].result.status = "success"
                        /\ RoomsOf(run[r].result.rooms) = GroupsOf(run[r].surgeries)
                        /\ Count(run[r].trace, "send")
                              = Cardinality(Attempted(run[r].result.rooms))
            /\ (Reported /\ report.log # 0) => logs[report.log].owner # r

\* the run has sent without a log row, and the status report for its target
\* date has found no log
C9_Witness ==
    \E r \in Runs :
        /\ InsertFailed(r) /\ Finished(r)
        /\ Count(run[r].trace, "send") >= 1
        /\ Reported
        /\ report.target_date = run[r].targetDate
        /\ report.overall_log_status = "no_log_found"
        /\ Len(report.rooms) >= 1
        /\ \A i \in 1 .. Len(report.rooms) : report.rooms[i].status = "need_resend"

\* the query of the surgeries failed: sError was thrown into the catch block
QueryFailed(r) == run[r].sError /\ run[r].pc \in {"update", "done"}

\* C11: a run whose query of the surgeries fails looks up no destination and
\* sends nothing, marks its log row error with the summary of the exception and
\* returns an outcome whose status is error.
C11_QueryFailureIsError ==
    \A r \in Runs :
        QueryFailed(r) =>
            /\ run[r].trace \in {<<"insert", "query">>, <<"insert", "query", "update">>}
            /\ run[r].roomResults = <<>>
            /\ run[r].status = "error"
            /\ run[r].summary = FailedSummary
            /\ run[r].result.status = "error"
            /\ Finished(r) =>
                  /\ run[r].result.returned
                  /\ run[r].logId # 0 =>
                        /\ logs[run[r].logId].status = "error"
                        /\ logs[run[r].logId].summary = FailedSummary
                        /\ logs[run[r].logId].details = NoDetails

\* there were surgeries to notify about, the query failed, the row says error
C11_Witness ==
    \E r \in Runs :
        /\ QueryFailed(r) /\ Finished(r) /\ run[r].logId # 0
        /\ Len(SurgeriesFor(run[r].targetDate)) >= 2
        /\ logs[run[r].logId].status = "error"
        /\ run[r].result.status = "error"
        /\ Count(run[r].trace, "send") = 0

\* p's request arrives in this step
Arrives(p) == rs[p].pc = "idle" /\ rs'[p].pc # "idle"

\* the resend answered 404
NotFound(p) == rs[p].pc = "done" /\ rs[p].code = 404

\* C12: a resend that finds no event of its room on its date answers 404 in the
\* step in which it has queried, with the log as it was; having answered 404 it
\* has looked up no destination, sent nothing and written no row.
C12_NoEventsNotFound ==
    /\ [](\A p \in Resends :
            rs[p].code = 404 =>
                /\ rs[p].pc = "done"
                /\ rs[p].trace = <<"query">>
                /\ rs[p].wrote = 0 /\ ~rs[p].inserted)
    /\ [][\A p \in Resends :
            (/\ Arrives(p)
             /\ rs'[p].date \in Dates /\ rs'[p].room \in StoredRooms
             /\ events[rs'[p].date][rs'[p].room] = 0
             /\ rs'[p].code # 500) =>
                /\ rs'[p].pc = "done" /\ rs'[p].code = 404
                /\ logs' = logs]_vars

\* a 404 for a room without events while the log holds a row for the date
C12_Witness ==
    \E p \in Resends :
        /\ NotFound(p)
        /\ events[rs[p].date][rs[p].room] = 0
        /\ Matching(logs, rs[p].date) # {}
        /\ \A i \in 1 .. Len(logs) : rs[p].room \notin RoomsOf(logs[i].details.rooms)

\* the lookup in mst_parameter answered, without a phone number for the room
NoRule(p) ==
    /\ rs[p].pc = "done"
    /\ rs[p].trace = <<"query", "lookup">>
    /\ rs[p].code # 500

\* C13: a resend whose room has events but no active destination rule, or a
\* rule with an empty address, answers 404 as a resend without events does; it
\* sends nothing and writes no row.
C13_NoRuleNotFound ==
    \A p \in Resends :
        NoRule(p) =>
            /\ rs[p].code = 404
            /\ rs[p].n > 0
            /\ rs[p].wrote = 0 /\ ~rs[p].inserted

\* row i is the most recent of the rows whose summary contains the date
MostRecent(rows, i, date) ==
    /\ i \in 1 .. Len(rows)
    /\ Contains(rows[i].summary, date)
    /\ \A k \in 1 .. Len(rows) :
          Contains(rows[k].summary, date) => rows[k].timestamp <= rows[i].timestamp

\* p reads the log in this step; p writes the log in this step
Reads(p) == rs[p].pc = "readlog" /\ rs'[p].pc = "write"
Writes(p) == rs[p].pc = "write" /\ rs'[p].pc = "done"

\* C14: a resend reads the most recent row whose summary contains its date.  If
\* there is one it writes that row alone: the RoomResults it read with its own
\* replacing the one of its room or appended, the summary it read with a note
\* appended, the status untouched, and no row inserted.  If there is none it
\* inserts one row, whose details hold its RoomResult alone and whose status is
\* success if the send succeeded and error otherwise.
C14_MergePolicy ==
    [][\A p \in Resends :
        /\ Reads(p) =>
              IF \E i \in 1 .. Len(logs) : Contains(logs[i].summary, rs[p].date)
              THEN /\ MostRecent(logs, rs'[p].latestLog.id, rs[p].date)
                   /\ rs'[p].latestLog = logs[rs'[p].latestLog.id]
              ELSE rs'[p].latestLog.id = 0
        /\ Writes(p) =>
              LET id == rs[p].latestLog.id
                  mine == Attempt(rs[p].room, rs[p].success, rs[p].n, TRUE)
                  old == rs[p].latestLog.details.rooms
                  k == IndexOfRoom(old, rs[p].room)
              IN IF id # 0
                 THEN /\ Len(logs') = Len(logs)
                      /\ \A i \in 1 .. Len(logs) : i # id => logs'[i] = logs[i]
                      /\ logs'[id].details.rooms =
                            IF k # 0 THEN [old EXCEPT ![k] = mine] ELSE Append(old, mine)
                      /\ logs'[id].summary = rs[p].latestLog.summary \o ResendNote(rs[p].room)
                      /\ logs'[id].status = logs[id].status
                      /\ logs'[id].timestamp = logs[id].timestamp
                 ELSE /\ Len(logs') = Len(logs) + 1
                      /\ \A i \in 1 .. Len(logs) : logs'[i] = logs[i]
                      /\ logs'[Len(logs')].details.rooms = <<mine>>
                      /\ logs'[Len(logs')].status = IF rs[p].success THEN "success" ELSE "error"
                      /\ Contains(logs'[Len(logs')].summary, rs[p].date)]_vars

\* one resend has inserted a row with status error; another, reading when two
\* rows held the date, has updated the more recent one
C14_Witness ==
    \E p, q \in Resends :
        /\ p # q /\ Resent(p) /\ Resent(q)
        /\ rs[q].inserted /\ ~rs[q].success
        /\ logs[rs[q].wrote].status = "error"
        /\ ~rs[p].inserted
        /\ Cardinality(Matching(logs, rs[p].date)) = 2
        /\ MostRecent(logs, rs[p].wrote, rs[p].date)
        /\ \E i \in Matching(logs, rs[p].date) : i # rs[p].wrote /\ logs[i].timestamp < rs[p].latestLog.timestamp

\* the request carries what the gateway admits: the scheduler's marker, or a
\* bearer token equal to a configured secret
Entitled(q) ==
    \/ q.xVercelCron = "1"
    \/ /\ q.cronSecret \notin {NULL, ""}
       /\ q.authorization = <<"Bearer", q.cronSecret>>

\* the gateway has answered the request of r, or is running the job for it
Handled(r) == run[r].request.arrived /\ (run[r].code # 0 \/ run[r].pc # "idle")

\* C15: the gateway starts the job only for a request that carries the
\* scheduler's marker or a bearer token equal to the configured secret; every
\* other request, with whatever token when no secret is configured, is answered
\* 401 with no log row inserted and nothing queried or sent.
C15_OnlyEntitledRequestsRun ==
    \A r \in Runs :
        Handled(r) =>
            IF Entitled(run[r].request)
            THEN run[r].pc # "idle" /\ run[r].code = 0 /\ run[r].trace[1] = "insert"
            ELSE /\ run[r].code = 401
                 /\ run[r].pc = "idle"
                 /\ run[r].trace = <<>>
                 /\ run[r].logId = 0
                 /\ \A i \in 1 .. Len(logs) : logs[i].owner # r

\* no secret is configured, the request bears the token that the template makes
\* of the unset secret, there are surgeries to notify about: 401, empty log
C15_Witness ==
    \E r \in Runs :
        /\ Handled(r)
        /\ run[r].request.cronSecret = NULL
        /\ run[r].request.authorization = <<"Bearer", "undefined">>
        /\ run[r].request.xVercelCron # "1"
        /\ run[r].code = 401
        /\ Len(SurgeriesFor(today + LeadDays)) >= 1
        /\ logs = <<>>

\* C19: the target date of a status report is executionDate + 2 days whenever
\* an executionDate is given, whatever date is given with it; without one it is
\* the date given; without either it is today + 2 days.  For the executionDate
\* on which a run executed it is the target date of that run.
C19_DateResolution ==
    Reported =>
        LET q == report.original_params
        IN /\ q.executionDate # NotGiven =>
                 /\ report.target_date \in Dates
                 /\ report.target_date = q.executionDate + LeadDays
           /\ (q.executionDate = NotGiven /\ q.date # NotGiven) =>
                 report.target_date = q.date
           /\ (q.executionDate = NotGiven /\ q.date = NotGiven) =>
                 report.target_date = today + LeadDays
           /\ \A r \in Runs :
                 (run[r].pc \in {"loop", "update", "done"} /\ q.executionDate = run[r].day) =>
                     report.target_date = run[r].targetDate

\* the status query answers in this step with a report for a date
Answers == report' # report /\ report'.code = 200 /\ report'.target_date \in Dates

\* the groups of the events of a date as they are now, and their sizes
GroupsNow(d) == {RoomOf(k) : k \in {c \in StoredRooms : events[d][c] > 0}}

CountNow(d, g) ==
    IF g = UNKNOWN THEN events[d][UNKNOWN] + events[d][NULL] ELSE events[d][g]

\* the RoomResults of room g in the most recent row whose summary contains d
LoggedFor(d, g) ==
    {e \in UNION {{logs[m].details.rooms[k] : k \in 1 .. Len(logs[m].details.rooms)} :
                    m \in {i \in 1 .. Len(logs) : MostRecent(logs, i, d)}} : e.room = g}

\* C16: a status report holds one record for each group of the current events
\* of its date and for nothing else; the status of a record is the one logged
\* for the group in the most recent row whose summary contains the date, and a
\* group with no RoomResult there, or with no such row, is need_resend with
\* has_updates true.
C16_OneRecordPerGroup ==
    [][Answers =>
        LET d == report'.target_date
            recs == report'.rooms
        IN /\ {recs[i].room : i \in 1 .. Len(recs)} = GroupsNow(d)
           /\ Len(recs) = Cardinality(GroupsNow(d))
           /\ \A i \in 1 .. Len(recs) :
                 /\ recs[i].surgery_count = CountNow(d, recs[i].room)
                 /\ IF LoggedFor(d, recs[i].room) # {}
                    THEN \A e \in LoggedFor(d, recs[i].room) : recs[i].status = e.status
                    ELSE recs[i].status = "need_resend" /\ recs[i].has_updates]_vars

\* two rows hold the date; the report follows the more recent one, the row a
\* resend inserted for one room, and the other room, which the run's row says
\* was sent, is need_resend
C16_Witness ==
    /\ Reported
    /\ Len(report.rooms) = 2
    /\ Cardinality(Matching(logs, report.target_date)) = 2
    /\ MostRecent(logs, report.log, report.target_date)
    /\ logs[report.log].owner = 0
    /\ \E i, k \in 1 .. 2 :
          /\ report.rooms[i].status = "need_resend" /\ report.rooms[i].has_updates
          /\ report.rooms[k].status \in {"sent", "send_failed"}
          /\ \E m \in 1 .. Len(logs) :
                /\ logs[m].owner # 0
                /\ \E e \in 1 .. Len(logs[m].details.rooms) :
                      /\ logs[m].details.rooms[e].room = report.rooms[i].room
                      /\ logs[m].details.rooms[e].status = "sent"

\* run r has completed its loop and updated the row it inserted, and no other
\* run and no resend has been started
AloneAndLogged(r) ==
    /\ Finished(r) /\ LoopCompleted(r) /\ run[r].logId # 0
    /\ \A o \in Runs \ {r} : run[o].pc = "idle"
    /\ \A p \in Resends : rs[p].pc = "idle"

\* C17: when a run has logged a group as sent with the count c it fetched and
\* the group now has more than c events, a status query for the run's target
\* date, no other run or resend having started, reports the group with
\* has_updates true and log_surgery_count c.
C17_GrowthIsFlagged ==
    [][Answers =>
        \A r \in Runs : \A i \in 1 .. Len(run[r].roomResults) :
            (/\ AloneAndLogged(r)
             /\ run[r].targetDate = report'.target_date
             /\ run[r].roomResults[i].status = "sent"
             /\ CountNow(run[r].targetDate, run[r].uniqueRooms[i].room) > run[r].uniqueRooms[i].n) =>
                \E k \in 1 .. Len(report'.rooms) :
                    /\ report'.rooms[k].room = run[r].uniqueRooms[i].room
                    /\ report'.rooms[k].status = "sent"
                    /\ report'.rooms[k].has_updates
                    /\ report'.rooms[k].log_surgery_count = run[r].uniqueRooms[i].n]_vars

\* the run sent for one event of a group, a second event was added, the report
\* says 2 against 1 logged and flags the group
C17_Witness ==
    /\ Reported
    /\ \E r \in Runs : \E i \in 1 .. Len(run[r].roomResults) : \E k \in 1 .. Len(report.rooms) :
          /\ AloneAndLogged(r)
          /\ run[r].targetDate = report.target_date
          /\ run[r].roomResults[i].status = "sent"
          /\ run[r].uniqueRooms[i].n = 1
          /\ CountNow(run[r].targetDate, run[r].uniqueRooms[i].room) = 2
          /\ report.rooms[k].room = run[r].uniqueRooms[i].room
          /\ report.rooms[k].surgery_count = 2
          /\ report.rooms[k].log_surgery_count = 1
          /\ report.rooms[k].has_updates

\* the events of the run's target date are those the run fetched
SameEvents(r) ==
    /\ GroupsNow(run[r].targetDate) = {run[r].uniqueRooms[i].room : i \in 1 .. Len(run[r].uniqueRooms)}
    /\ \A i \in 1 .. Len(run[r].uniqueRooms) :
          CountNow(run[r].targetDate, run[r].uniqueRooms[i].room) = run[r].uniqueRooms[i].n

\* C18: a status query for the target date of a run that has completed and
\* updated its row, the events being those the run fetched and no other run or
\* resend having started, reports each group with the status the run recorded
\* for it (sent, send_failed, skipped or error, the last two with their reason)
\* and none as need_resend.
C18_StatusAfterRun ==
    [][Answers =>
        \A r \in Runs :
            (/\ AloneAndLogged(r)
             /\ run[r].targetDate = report'.target_date
             /\ SameEvents(r)) =>
                /\ Len(report'.rooms) = Len(run[r].roomResults)
                /\ report'.overall_log_status = "success"
                /\ \A i \in 1 .. Len(run[r].roomResults) :
                      \E k \in 1 .. Len(report'.rooms) :
                          /\ report'.rooms[k].room = run[r].roomResults[i].room
                          /\ report'.rooms[k].status = run[r].roomResults[i].status
                          /\ report'.rooms[k].status # "need_resend"
                          /\ report'.rooms[k].failure_reason
                                <=> run[r].roomResults[i].status \in {"skipped", "error"}
                          /\ ~report'.rooms[k].has_updates]_vars

\* Ward A sent, the group without a destination rule skipped with its reason
C18_Witness ==
    /\ Reported
    /\ Len(report.rooms) = 2
    /\ \E r \in Runs :
          /\ AloneAndLogged(r) /\ SameEvents(r)
          /\ run[r].targetDate = report.target_date
          /\ report.log = run[r].logId
          /\ run[r].roomResults[1].status = "sent"
          /\ run[r].roomResults[2].status = "skipped"
          /\ report.rooms[1].room = WardA /\ report.rooms[1].status = "sent"
          /\ report.rooms[2].room = UNKNOWN /\ report.rooms[2].status = "skipped"
          /\ report.rooms[2].failure_reason

\* what a line says of its event: the name and the fields, without the number
ContentOf(line) == [nama_pasien |-> line.nama_pasien, fields |-> line.fields]

\* C20: a line a resend composes for a row says of it what the line the run
\* composes for the same row says: the same fields in the same order with the
\* same placeholders, at either resend handler.
C20_SameEventContent ==
    \A r \in Runs, p \in Resends :
        \A i \in 1 .. Len(run[r].message.lines), k \in 1 .. Len(rs[p].message.lines) :
            run[r].message.rows[i] = rs[p].message.rows[k] =>
                ContentOf(rs[p].message.lines[k]) = ContentOf(run[r].message.lines[i])

\* the request of a resend lacks its date or its group
Incomplete(p) == rs[p].date = NotGiven \/ rs[p].room = NULL

\* C21: a resend with a missing date or a missing group is answered 400 at once:
\* it has made no query of the store, composed and sent no message and written
\* no log row, and its arrival leaves the log table as it was.
C21_ValidationFirst ==
    /\ [](\A p \in Resends :
            (rs[p].pc # "idle" /\ Incomplete(p)) =>
                /\ rs[p].pc = "done"
                /\ rs[p].code = 400
                /\ rs[p].trace = <<>>
                /\ ~rs[p].message.composed
                /\ rs[p].wrote = 0
                /\ ~rs[p].inserted)
    /\ [][\A p \in Resends :
            (rs[p].pc = "idle" /\ rs'[p].pc # "idle" /\ Incomplete(p)') => logs' = logs]_vars

\* an incomplete request is rejected while the store holds events and a log row
\* of the date
C21_Witness ==
    \E p \in Resends :
        /\ rs[p].pc = "done" /\ rs[p].code = 400 /\ rs[p].date = NotGiven
        /\ rs[p].room = WardA
        /\ events[LeadDays][WardA] > 0
        /\ Matching(logs, LeadDays) # {}

\* what the claim says of one call of the sender
AsSpecified(call) ==
    /\ call.success = (call.token /\ call.resp = "status_true")
    /\ call.requests <= 1
    /\ ~call.token => call.requests = 0

\* C22: the sender reports success exactly when the provider's response has
\* status equal to true; without a token, on a transport exception and on any
\* other response the caller gets a failure as a value and goes on with it; a
\* call makes at most one request.
C22_SenderResult ==
    /\ \A r \in Runs :
          run[r].call.made =>
              /\ AsSpecified(run[r].call)
              /\ run[r].roomResults # <<>>
              /\ run[r].roomResults[Len(run[r].roomResults)].status =
                    (IF run[r].call.success THEN "sent" ELSE "send_failed")
    /\ \A p \in Resends :
          rs[p].call.made =>
              /\ AsSpecified(rs[p].call)
              /\ rs[p].success = rs[p].call.success
              /\ rs[p].pc \in {"readlog", "write", "done"}
              /\ rs[p].pc = "done" => rs[p].code = 200

\* a response whose status is not the boolean true, an exception and a missing
\* token have each been turned into a failure the resend logged
C22_Witness ==
    /\ \E p \in Resends :
          /\ rs[p].pc = "done" /\ rs[p].call.made /\ rs[p].call.token
          /\ rs[p].call.resp = "status_other" /\ ~rs[p].success
          /\ logs[rs[p].wrote].details.rooms[1].status = "send_failed"
    /\ \E r \in Runs :
          /\ run[r].pc = "done" /\ run[r].call.made /\ run[r].call.resp = "throws"
          /\ run[r].call.requests = 1

\* C23: a status query or a resend whose store query failed answers with a
\* generic failure only: the response carries nothing of the store's error.
C23_NoStoreDetail ==
    /\ report.code = 500 => report.details = NULL
    /\ \A p \in Resends : rs[p].code = 500 => rs[p].details = NULL

\* the resend p read the log while the row of run r was running, r had the date
\* of p as its target, and both have completed
Overlapped(p, r) ==
    /\ Resent(p)
    /\ r \in rs[p].running
    /\ Finished(r) /\ LoopCompleted(r)
    /\ run[r].targetDate = rs[p].date

\* C24: when a resend for a date has overlapped a run for that date, a status
\* query made after both have completed gives every group the run processed a
\* recorded status, none of them need_resend.
C24_OverlapNotSplit ==
    \A p \in Resends, r \in Runs :
        Overlapped(p, r) =>
            LET answer == StatusReport(rs[p].date, {})
            IN \A i \in 1 .. Len(answer.rooms) :
                  answer.rooms[i].room \in RoomsOf(run[r].roomResults) =>
                      answer.rooms[i].status # "need_resend"

\* the log row a run inserted
RowOf(r) == logs[run[r].logId]

PassedChecks(p) == rs[p].pc \in {"readlog", "write"} \/ Resent(p)

\* C26: a run has invoked the sender once for each RoomResult with status sent
\* or send_failed and looked up once for each RoomResult, so never sent for a
\* group skipped or in error; a resend that has passed its checks has invoked
\* the sender once, and one that has not, never.
C26_OneSendPerResolvedGroup ==
    /\ \A r \in Runs :
          /\ Count(run[r].trace, "send") = Cardinality(Attempted(run[r].roomResults))
          /\ Count(run[r].trace, "lookup") = Len(run[r].roomResults)
          /\ \A i \in 1 .. Len(run[r].roomResults) :
                run[r].roomResults[i].status \in {"skipped", "error"} =>
                    run[r].roomResults[i].phone = NULL
    /\ \A p \in Resends :
          Count(rs[p].trace, "send") = (IF PassedChecks(p) THEN 1 ELSE 0)

\* a run has returned with one group sent to and one skipped, and a resend has
\* passed its checks
C26_Witness ==
    /\ \E r \in Runs :
          /\ Finished(r) /\ Len(run[r].roomResults) = 2
          /\ run[r].roomResults[1].status = "skipped"
          /\ run[r].roomResults[2].status = "send_failed"
          /\ Count(run[r].trace, "send") = 1
    /\ \E p \in Resends : Resent(p)

\* the RoomResults of the groups other than g, in their order
Others(rooms, g) == SelectSeq(rooms, LAMBDA e : e.room # g)

\* p writes into the row it read
Merges(p) == Writes(p) /\ rs[p].latestLog.id # 0

\* what a merge leaves alone in any case: the columns of the row other than
\* details and summary, and every other row
MergeFrame(p) ==
    LET id == rs[p].latestLog.id
    IN /\ Len(logs') = Len(logs)
       /\ \A i \in 1 .. Len(logs) : i # id => logs'[i] = logs[i]
       /\ logs'[id].id = logs[id].id
       /\ logs'[id].status = logs[id].status
       /\ logs'[id].owner = logs[id].owner
       /\ logs'[id].timestamp = logs[id].timestamp

\* C27 as stated: a merge leaves the RoomResults of all other groups of the
\* row as they are when it writes.
C27_MergeChangesOwnGroupOnly ==
    [][\A p \in Resends :
          Merges(p) =>
              /\ MergeFrame(p)
              /\ Others(logs'[rs[p].latestLog.id].details.rooms, rs[p].room) =
                    Others(logs[rs[p].latestLog.id].details.rooms, rs[p].room)]_vars

\* C27: a resend that merges into a row changes its details and summary only,
\* and in the details the RoomResult of its own group only with respect to the
\* row as the resend read it: the RoomResults of the other groups are written
\* back as read, the status, the job, the timestamp and every other row are
\* left unchanged.
C27_MergeFrame ==
    [][\A p \in Resends :
          Merges(p) =>
              /\ MergeFrame(p)
              /\ Others(logs'[rs[p].latestLog.id].details.rooms, rs[p].room) =
                    Others(rs[p].latestLog.details.rooms, rs[p].room)
              /\ \E i \in 1 .. Len(logs'[rs[p].latestLog.id].details.rooms) :
                    logs'[rs[p].latestLog.id].details.rooms[i] = resendStatusOf(p)]_vars

\* a resend has merged its group into the row of a run that holds another group
\* too, and the other group's RoomResult is in the row as the run wrote it
C27_Witness ==
    \E p \in Resends, r \in Runs :
        /\ Resent(p) /\ ~rs[p].inserted
        /\ Finished(r) /\ rs[p].wrote = run[r].logId
        /\ Len(run[r].roomResults) = 2
        /\ logs[rs[p].wrote].version = rs[p].wroteVersion
        /\ Others(logs[rs[p].wrote].details.rooms, rs[p].room) =
              Others(run[r].roomResults, rs[p].room)
        /\ Others(run[r].roomResults, rs[p].room) # <<>>

\* a row of a run that is running or in error
Unfinished(row) == row.owner # 0 /\ row.status \in {"running", "error"}

\* C28: a row of a run in status running or error is the log of record of no
\* date: no resend reads it as latestLog or writes to it, and no status report
\* takes it as its log, so the error of a failed run is never the overall log
\* status reported.
C28_UnfinishedRowsNotOfRecord ==
    /\ [](/\ \A i \in 1 .. Len(logs), d \in Dates :
                Unfinished(logs[i]) => i \notin Matching(logs, d)
          /\ \A p \in Resends :
                rs[p].latestLog.id # 0 => ~Unfinished(rs[p].latestLog)
          /\ (Reported /\ report.log # 0) =>
                /\ ~Unfinished(logs[report.log])
                /\ report.overall_log_status = "error" => logs[report.log].owner = 0)
    /\ [][\A p \in Resends :
            Writes(p) =>
                \A i \in 1 .. Len(logs) :
                    Unfinished(logs[i]) => (i <= Len(logs') /\ logs'[i] = logs[i])]_vars

\* a run has failed, a resend had read the log while the row of the run was
\* running and inserted a row of its own, which the status report has taken
C28_Witness ==
    \E r \in Runs, p \in Resends :
        /\ Finished(r) /\ run[r].logId # 0 /\ RowOf(r).status = "error"
        /\ Resent(p) /\ rs[p].running = {r} /\ rs[p].inserted
        /\ Reported /\ report.log = rs[p].wrote

\* the write of p is the last thing that happened to the log: no other resend
\* has been made, and a run, if any, had returned before p read the row of the
\* run, into which p merged
LastWord(p) ==
    /\ Resent(p)
    /\ logs[rs[p].wrote].version = rs[p].wroteVersion
    /\ \A q \in Resends \ {p} : rs[q].pc = "idle"
    /\ \A r \in Runs :
          \/ run[r].pc = "idle"
          \/ Finished(r) /\ run[r].logId = rs[p].wrote

\* C29: a status query made after a resend for a group whose send succeeded,
\* nothing having happened since, reports the group as sent, with the logged
\* count equal to the current count and has_updates false.
C29_SentAfterResend ==
    [][\A p \in Resends :
          (Answers /\ LastWord(p) /\ rs[p].success /\ report'.target_date = rs[p].date) =>
              /\ \E i \in 1 .. Len(report'.rooms) : report'.rooms[i].room = rs[p].room
              /\ \A i \in 1 .. Len(report'.rooms) :
                    report'.rooms[i].room = rs[p].room =>
                        /\ report'.rooms[i].status = "sent"
                        /\ report'.rooms[i].log_surgery_count = report'.rooms[i].surgery_count
                        /\ report'.rooms[i].log_surgery_count = CountNow(rs[p].date, rs[p].room)
                        /\ ~report'.rooms[i].has_updates]_vars

\* the rows fetched whose stored room is k
Stored(surgeries, k) == Cardinality({i \in 1 .. Len(surgeries) : surgeries[i] = k})

\* C30: a run and a status report put the events with no stored room under the
\* sentinel group, together with those stored under the sentinel text, and
\* have no group for the absent value; a resend naming the sentinel group takes
\* the events stored under the sentinel text only, and is answered 404 without
\* a send when there are none, whatever the number of events with no room.
C30_SentinelGroup ==
    /\ \A r \in Runs :
          /\ NULL \notin RoomsOf(run[r].uniqueRooms)
          /\ \A i \in 1 .. Len(run[r].uniqueRooms) :
                run[r].uniqueRooms[i].room = UNKNOWN =>
                    run[r].uniqueRooms[i].n =
                        Stored(run[r].surgeries, UNKNOWN) + Stored(run[r].surgeries, NULL)
          /\ Stored(run[r].surgeries, NULL) > 0 => UNKNOWN \in RoomsOf(run[r].uniqueRooms)
    /\ (Reported /\ report.target_date \in Dates) =>
          /\ NULL \notin RoomsOf(report.rooms)
          /\ events[report.target_date][NULL] > 0 => UNKNOWN \in RoomsOf(report.rooms)
          /\ \A i \in 1 .. Len(report.rooms) :
                report.rooms[i].room = UNKNOWN =>
                    report.rooms[i].surgery_count = CountNow(report.target_date, UNKNOWN)
    /\ \A p \in Resends :
          (rs[p].pc # "idle" /\ rs[p].room = UNKNOWN /\ rs[p].date \in Dates) =>
              IF events[rs[p].date][UNKNOWN] = 0
              THEN /\ rs[p].pc = "done"
                   /\ rs[p].code \in {404, 500}
                   /\ rs[p].trace = <<"query">>
                   /\ rs[p].wrote = 0
              ELSE rs[p].code # 500 =>
                      /\ rs[p].n = events[rs[p].date][UNKNOWN]
                      /\ rs[p].code # 404

\* the events of the date have no stored room: the run has sent to the sentinel
\* group, the report lists it, and the resend naming it is answered 404
C30_Witness ==
    /\ events[LeadDays][NULL] > 0 /\ events[LeadDays][UNKNOWN] = 0
    /\ \E r \in Runs :
          /\ Finished(r) /\ Len(run[r].roomResults) = 1
          /\ run[r].roomResults[1].room = UNKNOWN /\ run[r].roomResults[1].status = "sent"
    /\ Reported /\ report.target_date = LeadDays /\ RoomsOf(report.rooms) = {UNKNOWN}
    /\ report.rooms[1].status = "sent"
    /\ \E p \in Resends : rs[p].pc = "done" /\ rs[p].room = UNKNOWN /\ rs[p].code = 404

====
